---- MODULE Spec2Model ----
(***************************************************************************)
(* Uniprocessor real-time scheduling engine of RM-Scheduler.               *)
(*                                                                         *)
(* Two schedulers are modelled side by side, selected by the variable alg: *)
(*   "RM"  : src/scheduler/rm_scheduler.py (RMScheduler) on top of         *)
(*           src/scheduler/base.py (BaseScheduler) and src/job.py (Job);   *)
(*   "EDF" : src/scheduler.py (Scheduler, EDFScheduler) and src/task.py.   *)
(*                                                                         *)
(* Naming.  The RM sources call the static descriptor a Task and a         *)
(* released instance a Job; the EDF sources use the two words the other    *)
(* way round.  The model uses the RM convention throughout: tasks are      *)
(* descriptors, jobs are instances <<task id, arrival>>.                   *)
(*                                                                         *)
(* The descriptor class of either scheduler (the RM Task with pk,          *)
(* computation, period, utility; the EDF Job with pk, computation,         *)
(* deadline, period, utility) is not among the sources.  Its derived       *)
(* property utility is taken from section 3 of the specification:          *)
(* utilization = computation / period.  Utilizations are kept exact, as    *)
(* integers over the common denominator hyper-period.                      *)
(***************************************************************************)
EXTENDS Integers, Sequences, FiniteSets, TLC

(* Bounds of the explored inputs. *)
MaxTasks == 2
MaxPeriod == 10
MaxComp == 4
MaxHyper == 70
MaxPeriodEDF == 4
MaxCompEDF == 2
MaxDeadline == 5
MaxPeriodThree == 12
MaxCompThree == 3
MaxHyperThree == 36

VARIABLES
    alg,      \* which scheduler class was instantiated: "RM" or "EDF"
    tasks,    \* self.tasks (RM) / self.jobs (EDF): id -> descriptor
    jobs,     \* self.jobs (RM) / self.tasks (EDF): set of <<id, arrival>>
    pc,       \* position of the caller / of schedule()
    verdict,  \* last value returned by is_feasible: "None", "True", "False"
    logmsg,   \* last message logged by is_feasible(log=True)
    queue,    \* local queue of schedule()
    now,      \* local clock of schedule()
    left,     \* left_execution of every job
    trace     \* slices announced by 'EXECUTING ... FOR ...s', in order

vars == <<alg, tasks, jobs, pc, verdict, logmsg, queue, now, left, trace>>

----------------------------------------------------------------------------
(* Arithmetic helpers (math.lcm, min, max). *)

RECURSIVE GCD(_, _)
GCD(a, b) == IF b = 0 THEN a ELSE GCD(b, a % b)

LCM(a, b) == (a * b) \div GCD(a, b)

Min2(a, b) == IF a <= b THEN a ELSE b

MinOf(S) == CHOOSE x \in S : \A y \in S : x <= y

MaxOf(S) == CHOOSE x \in S : \A y \in S : x >= y

RECURSIVE Pow(_, _)
Pow(b, e) == IF e = 0 THEN 1 ELSE b * Pow(b, e - 1)

RECURSIVE SumOver(_, _)
\* sum of f[x] for x in S
SumOver(f, S) ==
    IF S = {} THEN 0
    ELSE LET x == CHOOSE y \in S : TRUE IN f[x] + SumOver(f, S \ {x})

----------------------------------------------------------------------------
(* Construction: BaseScheduler.__init__ / Scheduler.__init__. *)

RECURSIVE LcmOver(_, _)
LcmOver(ts, S) ==
    IF S = {} THEN 1
    ELSE LET x == CHOOSE y \in S : TRUE IN LCM(ts[x].period, LcmOver(ts, S \ {x}))

\* math.lcm(*[task.period for task in self.tasks])
get_hyper_period(ts) == LcmOver(ts, DOMAIN ts)

\* for task in tasks: n = hyper_period // period; for i in range(n): arrival = period * i
create_jobs_off_by_one(ts) ==
    UNION { { <<t, ts[t].period * i>> : i \in 0 .. (get_hyper_period(ts) \div ts[t].period) }
            : t \in DOMAIN ts }

create_jobs(ts) ==
    UNION { { <<t, ts[t].period * i>> : i \in 0 .. ((get_hyper_period(ts) \div ts[t].period) - 1) }
            : t \in DOMAIN ts }

\* Input records.  An RM record has no deadline of its own: Job.deadline is
\* arrival + task.period, so its deadline field repeats the period.
ParamsRM ==
    { [computation |-> c, period |-> p, deadline |-> p] :
        c \in 1 .. MaxComp, p \in 1 .. MaxPeriod }

ParamsEDF ==
    { [computation |-> c, period |-> p, deadline |-> d] :
        c \in 1 .. MaxCompEDF, p \in 1 .. MaxPeriodEDF, d \in 1 .. MaxDeadline }

Params(a) == IF a = "RM" THEN ParamsRM ELSE ParamsEDF

TaskSets(a) ==
    UNION { { ts \in [1 .. n -> Params(a)] : get_hyper_period(ts) <= MaxHyper }
            : n \in 1 .. MaxTasks }

\* Job.__init__: left_execution = task.computation
initial_left(ts, js) == [j \in js |-> ts[j[1]].computation]

Init ==
    /\ alg \in {"RM", "EDF"}
    /\ tasks \in TaskSets(alg)
    /\ jobs = create_jobs(tasks)
    /\ left = initial_left(tasks, jobs)
    /\ pc = "start"
    /\ verdict = "None"
    /\ logmsg = "none"
    /\ queue = <<>>
    /\ now = 0
    /\ trace = <<>>

----------------------------------------------------------------------------
(* Job properties: src/job.py (RM), src/task.py (EDF). *)

job_arrival(j) == j[2]

job_period(j) == tasks[j[1]].period

\* RM: arrival + task.period.  EDF: arrival + job.deadline.
job_deadline(j) ==
    IF alg = "RM" THEN j[2] + tasks[j[1]].period ELSE j[2] + tasks[j[1]].deadline

\* is_done: left_execution <= 0
is_done(l, j) == l[j] <= 0

\* compute: if left_execution <= 0: return; left_execution -= exec_time
compute(l, j, exec_time) ==
    IF l[j] <= 0 THEN l ELSE [l EXCEPT ![j] = l[j] - exec_time]

----------------------------------------------------------------------------
(* Admission control of RMScheduler: src/scheduler/rm_scheduler.py. *)

\* task.utility = computation / period, scaled by the hyper-period H so that
\* it stays an integer: utility_scaled(ts, t) / H is the utility of task t.
utility_scaled(ts, t) == ts[t].computation * (get_hyper_period(ts) \div ts[t].period)

\* sum(task.utility for task in self.tasks), scaled by H
utilization_sum_scaled(ts) ==
    SumOver([t \in DOMAIN ts |-> utility_scaled(ts, t)], DOMAIN ts)

\* utilization_sum < self.utilization_lub(), with utilization_lub() =
\* n * (2 ** (1 / n) - 1).  For U = W / H this is (1 + U/n)^n < 2, that is
\* (n*H + W)^n < 2 * (n*H)^n.  The bound never exceeds 1, so W < H is implied;
\* it is tested first to keep the powers small.
lt_utilization_lub(ts) ==
    LET n == Cardinality(DOMAIN ts)
        H == get_hyper_period(ts)
        W == utilization_sum_scaled(ts)
    IN  W < H /\ Pow(n * H + W, n) < 2 * Pow(n * H, n)

\* utilization_sum >= 1
ge_one(ts) == utilization_sum_scaled(ts) >= get_hyper_period(ts)

rm_is_feasible_inconclusive_false(ts) ==
    IF lt_utilization_lub(ts)
    THEN [ret |-> "True", log |-> "TASKS ARE SCHEDULABLE DUE TO LEAST UPPER BOUND!"]
    ELSE IF ge_one(ts)
    THEN [ret |-> "False", log |-> "TASKS ARE NOT SCHEDULABLE!"]
    ELSE [ret |-> "False",
          log |-> "TASKS MIGHT BE SCHEDULABLE WITH RM SCHEDULER BUT NOT SURE!"]

\* RMScheduler.is_feasible: the returned bool and the message logged when log=True
rm_is_feasible(ts) ==
    IF lt_utilization_lub(ts)
    THEN [ret |-> "True", log |-> "TASKS ARE SCHEDULABLE DUE TO LEAST UPPER BOUND!"]
    ELSE IF ge_one(ts)
    THEN [ret |-> "False", log |-> "TASKS ARE NOT SCHEDULABLE!"]
    ELSE [ret |-> "True",
          log |-> "TASKS MIGHT BE SCHEDULABLE WITH RM SCHEDULER BUT NOT SURE!"]

----------------------------------------------------------------------------
(* Admission control of EDFScheduler: src/scheduler.py. *)

\* total_sum += job.computation * math.floor((t + job.period - job.deadline) / job.period)
demand_bound_function(ts, t) ==
    SumOver([k \in DOMAIN ts |->
                ts[k].computation * ((t + ts[k].period - ts[k].deadline) \div ts[k].period)],
            DOMAIN ts)

\* sum([job.utility for job in self.jobs]), scaled by H
get_total_utility_scaled(ts) == utilization_sum_scaled(ts)

\* max([task.deadline for task in self.tasks]) over the released instances
get_max_deadline(ts, js) == MaxOf({ j[2] + ts[j[1]].deadline : j \in js })

\* if job.utility > 1: raise ValueError
l_star_raises(ts) == \E k \in DOMAIN ts : ts[k].computation > ts[k].period

\* total_sum / self.get_total_utility() as the fraction <<numerator, denominator>>;
\* both sums carry the same factor 1/H, which cancels.
get_l_star(ts) ==
    << SumOver([k \in DOMAIN ts |->
                  (ts[k].period - ts[k].deadline) * utility_scaled(ts, k)], DOMAIN ts),
       get_total_utility_scaled(ts) >>

\* max([l_star, max_deadline]) and min([hyper_period, ...]) on fractions
FracLe(x, y) == x[1] * y[2] <= y[1] * x[2]

FracMax(x, y) == IF FracLe(y, x) THEN x ELSE y

FracMin(x, y) == IF FracLe(x, y) THEN x ELSE y

\* max_d = min([hyper_period, max([l_star, max_deadline])])
check_horizon(ts, js) ==
    FracMin(<<get_hyper_period(ts), 1>>,
            FracMax(get_l_star(ts), <<get_max_deadline(ts, js), 1>>))

\* deadlines = [task.deadline for task in tasks if task.deadline <= max_d]
check_points(ts, js) ==
    { t \in { j[2] + ts[j[1]].deadline : j \in js } : FracLe(<<t, 1>>, check_horizon(ts, js)) }

edf_is_feasible_no_dbf(ts, js) ==
    IF l_star_raises(ts)
    THEN [ret |-> "False", log |-> "DEADLINE IS MORE THAN ITS PERIOD!"]
    ELSE [ret |-> "True", log |-> "none"]

\* EDFScheduler.is_feasible: the returned bool and the error it logs
edf_is_feasible(ts, js) ==
    IF l_star_raises(ts)
    THEN [ret |-> "False", log |-> "DEADLINE IS MORE THAN ITS PERIOD!"]
    ELSE IF \E t \in check_points(ts, js) : demand_bound_function(ts, t) > t
    THEN [ret |-> "False", log |-> "DEMAND BOUND FUNCTION -- UNSCHEDULABLE"]
    ELSE [ret |-> "True", log |-> "none"]

is_feasible(a, ts, js) ==
    IF a = "RM" THEN rm_is_feasible(ts) ELSE edf_is_feasible(ts, js)


----------------------------------------------------------------------------
(* Lists: sorted(..., key=...), list.sort(key=...), list.remove. *)

StableSortByKey_ties_reversed(seq, k) ==
    LET n == Len(seq)
        rank(i) == 1 + Cardinality({ j \in 1 .. n : k[j] < k[i] \/ (k[j] = k[i] /\ j > i) })
    IN  [r \in 1 .. n |-> seq[CHOOSE i \in 1 .. n : rank(i) = r]]

\* Python's sort is stable: elements with equal keys keep their order.
\* k[i] is the key of seq[i].
StableSortByKey(seq, k) ==
    LET n == Len(seq)
        rank(i) == 1 + Cardinality({ j \in 1 .. n : k[j] < k[i] \/ (k[j] = k[i] /\ j < i) })
    IN  [r \in 1 .. n |-> seq[CHOOSE i \in 1 .. n : rank(i) = r]]

sort_by_arrival(q) == StableSortByKey(q, [i \in 1 .. Len(q) |-> job_arrival(q[i])])

sort_by_deadline(q) == StableSortByKey(q, [i \in 1 .. Len(q) |-> job_deadline(q[i])])

sort_by_period(q) == StableSortByKey(q, [i \in 1 .. Len(q) |-> job_period(q[i])])

\* queue.remove(job): drops the first occurrence
remove(q, j) ==
    LET i == CHOOSE x \in 1 .. Len(q) : q[x] = j /\ \A y \in 1 .. (x - 1) : q[y] # j
    IN  SubSeq(q, 1, i - 1) \o SubSeq(q, i + 1, Len(q))

\* list(self.jobs): self.jobs is a set of objects hashed by identity, so it is
\* enumerated in an order the input does not fix: any arrangement of its jobs.
arrangements(G) ==
    { f \in [1 .. Cardinality(G) -> G] :
        \A a, b \in 1 .. Cardinality(G) : a # b => f[a] # f[b] }

RECURSIVE sorted_set(_, _)
\* sorted(list(self.jobs), key=...): the stable sort orders the jobs by key and
\* keeps the order of the enumeration among jobs with equal keys, so the
\* possible results are the lists that take the key values in ascending order
\* and, within one key value, its jobs in any arrangement.  kf[j] is j's key.
sorted_set(js, kf) ==
    IF js = {} THEN { <<>> }
    ELSE LET k == MinOf({ kf[j] : j \in js })
             G == { j \in js : kf[j] = k }
         IN  { head \o rest : head \in arrangements(G), rest \in sorted_set(js \ G, kf) }

\* RM: key = arrival (line 153).  EDF: key = deadline (line 195).
initial_queues(a, ts, js) ==
    IF a = "RM"
    THEN sorted_set(js, [j \in js |-> j[2]])
    ELSE sorted_set(js, [j \in js |-> j[2] + ts[j[1]].deadline])

----------------------------------------------------------------------------
(* Dispatch loop of RMScheduler.schedule. *)

\* arrived_jobs: the jobs of the queue up to the first one with arrival > now
arrived_prefix(q, n) ==
    LET stop == { i \in 1 .. Len(q) : job_arrival(q[i]) > n }
    IN  IF stop = {} THEN q ELSE SubSeq(q, 1, MinOf(stop) - 1)

get_job_no_deadline_check(q, n, l) ==
    LET arrived_jobs == arrived_prefix(q, n)
    IN  IF arrived_jobs = <<>>
        THEN [kind |-> "None"]
        ELSE [kind |-> "Job", job |-> sort_by_period(arrived_jobs)[1]]

\* RMScheduler.get_job
get_job(q, n, l) ==
    LET arrived_jobs == arrived_prefix(q, n)
    IN  IF \E i \in 1 .. Len(arrived_jobs) :
               job_deadline(arrived_jobs[i]) < n /\ ~is_done(l, arrived_jobs[i])
        THEN [kind |-> "ValueError"]
        ELSE IF arrived_jobs = <<>>
        THEN [kind |-> "None"]
        ELSE [kind |-> "Job", job |-> sort_by_period(arrived_jobs)[1]]

idle_backwards(q, n) == n - MinOf({ job_arrival(q[i]) : i \in 1 .. Len(q) })

idle_stays(q, n) == n

idle_until_last_arrival(q, n) ==
    LET next_arrival == MaxOf({ job_arrival(q[i]) : i \in 1 .. Len(q) })
        idle_time == next_arrival - n
    IN  n + idle_time

\* RMScheduler.idle_cpu_until_next_job_arrives, EDFScheduler.__idle_cpu_task_arrives
idle_cpu_until_next_job_arrives(q, n) ==
    LET next_arrival == MinOf({ job_arrival(q[i]) : i \in 1 .. Len(q) })
        idle_time == next_arrival - n
    IN  n + idle_time

get_job_exec_time_no_preemption(q, job, n, l) == l[job]

get_job_exec_time_no_min(q, job, n, l) ==
    LET high_priority_jobs ==
            { i \in 1 .. Len(q) :
                /\ job_arrival(q[i]) < job_deadline(job)
                /\ job_period(q[i]) < job_period(job)
                /\ ~is_done(l, q[i]) }
    IN  IF high_priority_jobs # {}
        THEN MinOf({ job_arrival(q[i]) : i \in high_priority_jobs }) - n
        ELSE l[job]

get_job_exec_time_any_period(q, job, n, l) ==
    LET high_priority_jobs ==
            { i \in 1 .. Len(q) :
                /\ job_arrival(q[i]) < job_deadline(job)
                /\ ~is_done(l, q[i]) }
    IN  IF high_priority_jobs # {}
        THEN Min2(MinOf({ job_arrival(q[i]) : i \in high_priority_jobs }) - n, l[job])
        ELSE l[job]

\* RMScheduler.get_job_exec_time
get_job_exec_time(q, job, n, l) ==
    LET high_priority_jobs ==
            { i \in 1 .. Len(q) :
                /\ job_arrival(q[i]) < job_deadline(job)
                /\ job_period(q[i]) < job_period(job)
                /\ ~is_done(l, q[i]) }
    IN  IF high_priority_jobs # {}
        THEN Min2(MinOf({ job_arrival(q[i]) : i \in high_priority_jobs }) - n, l[job])
        ELSE l[job]

\* One pass through the body of 'while queue:' (lines 156-171).  st holds the
\* locals queue and now, the jobs' left_execution, the slices logged so far
\* and pc ("error" once ValueError has left schedule()).
rm_iteration(st) ==
    LET got == get_job(st.queue, st.now, st.left)
    IN  IF got.kind = "ValueError" THEN [st EXCEPT !.pc = "error"]
        ELSE IF got.kind = "None"
        THEN [st EXCEPT !.now = idle_cpu_until_next_job_arrives(st.queue, st.now)]
        ELSE
        LET job == got.job
            q1 == remove(st.queue, job)
            exec_time == get_job_exec_time(q1, job, st.now, st.left)
            l1 == compute(st.left, job, exec_time)
        IN  [st EXCEPT
               !.trace = Append(st.trace,
                                [job |-> job, start |-> st.now, duration |-> exec_time]),
               !.left = l1,
               !.now = st.now + exec_time,
               !.queue = IF l1[job] > 0 THEN sort_by_arrival(Append(q1, job)) ELSE q1]


----------------------------------------------------------------------------
(* Dispatch loop of EDFScheduler.schedule. *)

\* EDFScheduler.__get_task: the first task of the queue with arrival <= now
get_task(q, n) ==
    LET arrived == { i \in 1 .. Len(q) : job_arrival(q[i]) <= n }
    IN  IF arrived = {} THEN [kind |-> "None"]
        ELSE [kind |-> "Job", job |-> q[MinOf(arrived)]]

get_task_exec_time_no_min(q, task, n, l) ==
    LET stop == { i \in 1 .. Len(q) : ~(job_deadline(q[i]) < job_deadline(task)) }
        high_priority_tasks ==
            IF stop = {} THEN 1 .. Len(q) ELSE 1 .. (MinOf(stop) - 1)
    IN  IF high_priority_tasks # {}
        THEN MinOf({ job_arrival(q[i]) : i \in high_priority_tasks }) - n
        ELSE l[task]

get_task_exec_time_no_preemption(q, task, n, l) == l[task]

\* EDFScheduler.get_task_exec_time: the tasks ahead of the first one whose
\* deadline is not earlier than task.deadline
get_task_exec_time(q, task, n, l) ==
    LET stop == { i \in 1 .. Len(q) : ~(job_deadline(q[i]) < job_deadline(task)) }
        high_priority_tasks ==
            IF stop = {} THEN 1 .. Len(q) ELSE 1 .. (MinOf(stop) - 1)
    IN  IF high_priority_tasks # {}
        THEN Min2(MinOf({ job_arrival(q[i]) : i \in high_priority_tasks }) - n, l[task])
        ELSE l[task]

\* One pass through the body of 'while queue:' (lines 198-222).
edf_iteration(st) ==
    LET got == get_task(st.queue, st.now)
    IN  IF got.kind = "None"
        THEN [st EXCEPT !.now = idle_cpu_until_next_job_arrives(st.queue, st.now)]
        ELSE
        LET task == got.job
            q1 == remove(st.queue, task)
            exec_time == get_task_exec_time(q1, task, st.now, st.left)
            l1 == compute(st.left, task, exec_time)
        IN  [st EXCEPT
               !.trace = Append(st.trace,
                                [job |-> task, start |-> st.now, duration |-> exec_time]),
               !.left = l1,
               !.now = st.now + exec_time,
               !.queue = IF Len(q1) > 0 /\ l1[task] > 0
                         THEN sort_by_deadline(Append(q1, task))
                         ELSE q1]

----------------------------------------------------------------------------
(* The state machine. *)

loop_iteration(a, st) == IF a = "RM" THEN rm_iteration(st) ELSE edf_iteration(st)

\* the locals of schedule() and the jobs it mutates, as one record
Locals == [queue |-> queue, now |-> now, left |-> left, trace |-> trace, pc |-> pc]

\* what the next pass of the loop will do with the head of the queue
next_kind ==
    IF alg = "RM" THEN get_job(queue, now, left).kind ELSE get_task(queue, now).kind

Apply(st) ==
    /\ queue' = st.queue
    /\ now' = st.now
    /\ left' = st.left
    /\ trace' = st.trace
    /\ pc' = st.pc

\* A caller asks for the verdict first, as test_rm_scheduler does (log=True).
IsFeasible ==
    /\ pc = "start"
    /\ verdict' = is_feasible(alg, tasks, jobs).ret
    /\ logmsg' = is_feasible(alg, tasks, jobs).log
    /\ pc' = "checked"
    /\ UNCHANGED <<alg, tasks, jobs, queue, now, left, trace>>

schedule_entry_unguarded(v) == "loop"

\* if not self.is_feasible(log=False): return
schedule_entry(v) == IF v = "False" THEN "returned" ELSE "loop"

\* schedule() on a rejected task set: logs the error and returns.
ScheduleRejected ==
    /\ pc \in {"start", "checked"}
    /\ schedule_entry(is_feasible(alg, tasks, jobs).ret) = "returned"
    /\ verdict' = is_feasible(alg, tasks, jobs).ret
    /\ pc' = "returned"
    /\ UNCHANGED <<alg, tasks, jobs, logmsg, queue, now, left, trace>>

\* schedule() on an admitted task set: queue = sorted(list(self.jobs)), now = 0.
ScheduleAdmitted ==
    /\ pc \in {"start", "checked"}
    /\ schedule_entry(is_feasible(alg, tasks, jobs).ret) = "loop"
    /\ verdict' = is_feasible(alg, tasks, jobs).ret
    /\ queue' \in initial_queues(alg, tasks, jobs)
    /\ now' = 0
    /\ pc' = "loop"
    /\ UNCHANGED <<alg, tasks, jobs, logmsg, left, trace>>

\* No job has arrived: the clock jumps to the next arrival.
Idle ==
    /\ pc = "loop"
    /\ queue # <<>>
    /\ next_kind = "None"
    /\ Apply(loop_iteration(alg, Locals))
    /\ UNCHANGED <<alg, tasks, jobs, verdict, logmsg>>

\* get_job raises ValueError, which leaves schedule().
DeadlineMiss ==
    /\ pc = "loop"
    /\ queue # <<>>
    /\ next_kind = "ValueError"
    /\ Apply(loop_iteration(alg, Locals))
    /\ UNCHANGED <<alg, tasks, jobs, verdict, logmsg>>

\* A job is selected and runs for one slice.
Execute ==
    /\ pc = "loop"
    /\ queue # <<>>
    /\ next_kind = "Job"
    /\ Apply(loop_iteration(alg, Locals))
    /\ UNCHANGED <<alg, tasks, jobs, verdict, logmsg>>

\* 'while queue:' finds the queue empty; schedule() returns.
Finish ==
    /\ pc = "loop"
    /\ queue = <<>>
    /\ pc' = "done"
    /\ UNCHANGED <<alg, tasks, jobs, verdict, logmsg, queue, now, left, trace>>

Next ==
    \/ IsFeasible
    \/ ScheduleRejected
    \/ ScheduleAdmitted
    \/ Idle
    \/ DeadlineMiss
    \/ Execute
    \/ Finish

Spec == Init /\ [][Next]_vars


----------------------------------------------------------------------------
(* The dispatch loop of RMScheduler.schedule on its own (lines 153-172),    *)
(* entered with the job set of any task set, whatever the analyzer says    *)
(* about it.  schedule() itself enters the loop only past its guard.       *)

InitLoop ==
    /\ alg = "RM"
    /\ tasks \in TaskSets("RM")
    /\ jobs = create_jobs(tasks)
    /\ left = initial_left(tasks, jobs)
    /\ verdict = rm_is_feasible(tasks).ret
    /\ logmsg = "none"
    /\ queue \in initial_queues("RM", tasks, jobs)
    /\ now = 0
    /\ trace = <<>>
    /\ pc = "loop"

NextLoop ==
    \/ Idle
    \/ DeadlineMiss
    \/ Execute
    \/ Finish

SpecLoop == InitLoop /\ [][NextLoop]_vars

----------------------------------------------------------------------------
(* RMScheduler on three tasks of pairwise different periods, listed by      *)
(* ascending period (self.tasks is a set: the order of data is immaterial). *)

ParamsThree ==
    { [computation |-> c, period |-> p, deadline |-> p] :
        c \in 1 .. MaxCompThree, p \in 1 .. MaxPeriodThree }

TaskSetsThree ==
    { ts \in [1 .. 3 -> ParamsThree] :
        /\ ts[1].period < ts[2].period
        /\ ts[2].period < ts[3].period
        /\ get_hyper_period(ts) <= MaxHyperThree }

InitThree ==
    /\ alg = "RM"
    /\ tasks \in TaskSetsThree
    /\ jobs = create_jobs(tasks)
    /\ left = initial_left(tasks, jobs)
    /\ pc = "start"
    /\ verdict = "None"
    /\ logmsg = "none"
    /\ queue = <<>>
    /\ now = 0
    /\ trace = <<>>

SpecThree == InitThree /\ [][Next]_vars

----------------------------------------------------------------------------
(* Construction on arbitrary caller data: BaseScheduler.__init__ (RM),      *)
(* Scheduler.__init__ (EDF).  Here tasks holds the argument data while pc  *)
(* is "new".                                                               *)

\* Construction of one descriptor.  The descriptor classes are not among the
\* sources; section 7 of the specification has a non-positive period
\* surfaced as a configuration error at Task/Job construction.
descriptor_init_raises(d) == d.period <= 0

RawParams(a) ==
    Params(a) \cup { [computation |-> c, period |-> p, deadline |-> 1] :
                       c \in 1 .. MaxCompEDF, p \in {0 - 1, 0} }

RawInputs(a) ==
    UNION { { data \in [1 .. n -> RawParams(a)] :
                IF \E k \in 1 .. n : descriptor_init_raises(data[k])
                THEN TRUE
                ELSE get_hyper_period(data) <= MaxHyper }
            : n \in 0 .. MaxTasks }

InitCtor ==
    /\ alg \in {"RM", "EDF"}
    /\ tasks \in RawInputs(alg)
    /\ jobs = {}
    /\ left = initial_left(tasks, {})
    /\ pc = "new"
    /\ verdict = "None"
    /\ logmsg = "none"
    /\ queue = <<>>
    /\ now = 0
    /\ trace = <<>>

\* __init__: the descriptors are built in a loop over data (none for an empty
\* list), then the jobs over math.lcm(*periods), which is 1 for no periods.
Construct ==
    /\ pc = "new"
    /\ IF \E k \in DOMAIN tasks : descriptor_init_raises(tasks[k])
       THEN /\ pc' = "config_error"
            /\ UNCHANGED <<jobs, left>>
       ELSE /\ jobs' = create_jobs(tasks)
            /\ left' = initial_left(tasks, create_jobs(tasks))
            /\ pc' = "start"
    /\ UNCHANGED <<alg, tasks, verdict, logmsg, queue, now, trace>>

NextCtor == Construct

SpecCtor == InitCtor /\ [][NextCtor]_vars

----------------------------------------------------------------------------
(* A whole run of the loop as a function of its initial queue. *)

RECURSIVE run_loop(_, _)
\* 'while queue:' iterated until the queue is empty or ValueError is raised
run_loop(a, st) ==
    IF st.pc = "error" THEN st
    ELSE IF st.queue = <<>> THEN [st EXCEPT !.pc = "done"]
    ELSE run_loop(a, loop_iteration(a, st))

\* the slices and the outcome of schedule() when list(self.jobs) sorts to q
run_of(q) ==
    LET st == run_loop(alg, [queue |-> q, now |-> 0,
                             left |-> initial_left(tasks, jobs),
                             trace |-> <<>>, pc |-> "loop"])
    IN  [trace |-> st.trace, pc |-> st.pc]

----------------------------------------------------------------------------
(* Vocabulary of the properties. *)

slice_end(s) == s.start + s.duration

\* no slice of any job ends after the job's deadline
AllSlicesOnTime == \A i \in 1 .. Len(trace) : slice_end(trace[i]) <= job_deadline(trace[i].job)

\* total duration of the slices of the jobs in J
RECURSIVE executed_upto(_, _)
executed_upto(J, i) ==
    IF i = 0 THEN 0
    ELSE (IF trace[i].job \in J THEN trace[i].duration ELSE 0) + executed_upto(J, i - 1)

executed(J) == executed_upto(J, Len(trace))

\* total utilization against 1 and against the Liu & Layland bound
InconclusiveZone == ~lt_utilization_lub(tasks) /\ ~ge_one(tasks)

\* some pending job has arrived, is past its deadline and has work left
pending_missed ==
    \E i \in 1 .. Len(queue) :
        /\ job_arrival(queue[i]) <= now
        /\ job_deadline(queue[i]) < now
        /\ left[queue[i]] > 0

\* no pending job has arrived
no_arrived == \A i \in 1 .. Len(queue) : job_arrival(queue[i]) > now

\* A natural number that bounds the passes the loop can still make from
\* the locals st: remaining work first, pending jobs yet to arrive second;
\* 0 once the loop has been left.
loop_bound(st) ==
    IF st.pc # "loop" THEN 0
    ELSE IF st.queue = <<>> THEN 1
    ELSE 2 + SumOver(st.left, jobs) * (Cardinality(jobs) + 1)
           + Cardinality({ i \in 1 .. Len(st.queue) : job_arrival(st.queue[i]) > st.now })

\* the demand bound of the specification: each task contributes
\* computation * max(0, floor((t + period - deadline) / period))
clamped_demand(ts, t) ==
    SumOver([k \in DOMAIN ts |->
                ts[k].computation *
                    (IF (t + ts[k].period - ts[k].deadline) \div ts[k].period < 0
                     THEN 0
                     ELSE (t + ts[k].period - ts[k].deadline) \div ts[k].period)],
            DOMAIN ts)

some_job_preempted == \E i, k \in 1 .. Len(trace) : i < k /\ trace[i].job = trace[k].job

----------------------------------------------------------------------------
(* Properties. *)

\* C1: an RM task set admitted by the utilization-bound branch (U below
\* n(2^(1/n)-1)) is dispatched without the deadline-miss error, every slice of
\* every job ends by arrival + period, and a finished run leaves no job with
\* work remaining.
C1_BoundAdmittedMeetsDeadlines ==
    (alg = "RM" /\ lt_utilization_lub(tasks)) =>
        /\ pc # "error"
        /\ AllSlicesOnTime
        /\ pc = "done" => (queue = <<>> /\ \A j \in jobs : left[j] = 0)

C1_Witness ==
    /\ alg = "RM"
    /\ lt_utilization_lub(tasks)
    /\ pc = "done"
    /\ Cardinality(DOMAIN tasks) = 2
    /\ some_job_preempted

\* C2: in a run of RMScheduler.schedule on an admitted task set, a job that
\* is unfinished at its deadline makes the run fail; hence a run that ends
\* normally has no slice ending after its job's deadline.
C2_MissAlwaysSurfaced ==
    (alg = "RM" /\ pc = "done") => AllSlicesOnTime

\* C3: in a run of EDFScheduler.schedule on a task set its is_feasible
\* admits, every instance completes by arrival + relative deadline: no slice
\* ends after the deadline of its instance.
C3_EdfAdmittedMeetsDeadlines ==
    (alg = "EDF" /\ verdict = "True") => AllSlicesOnTime

C5_RejectedNotScheduled ==
    verdict = "False" =>
        /\ trace = <<>>
        /\ now = 0
        /\ left = initial_left(tasks, jobs)
        /\ pc \in {"checked", "returned"}

C5_Witness ==
    /\ pc = "returned"
    /\ verdict = "False"
    /\ Cardinality(DOMAIN tasks) = 2

C7_Deterministic ==
    pc \in {"done", "error"} =>
        \A q \in initial_queues(alg, tasks, jobs) : run_of(q) = [trace |-> trace, pc |-> pc]

\* C8: when schedule() ends normally, every job has received exactly its
\* task's computation, and the slices of each task add up to
\* computation * (hyperperiod / period).
C8_HyperperiodCoverage ==
    pc = "done" =>
        /\ \A j \in jobs : executed({j}) = tasks[j[1]].computation
        /\ \A t \in DOMAIN tasks :
              executed({ j \in jobs : j[1] = t }) =
                  tasks[t].computation * (get_hyper_period(tasks) \div tasks[t].period)

C8_Witness ==
    /\ pc = "done"
    /\ Cardinality(DOMAIN tasks) = 2
    /\ some_job_preempted
    /\ get_hyper_period(tasks) > tasks[1].period

\* C9: the clock never decreases, and consecutive slices do not overlap:
\* slice i+1 starts no earlier than slice i ends.
C9_NoDoubleBooking ==
    [][ /\ now' >= now
        /\ \A i \in 1 .. (Len(trace') - 1) : trace'[i + 1].start >= slice_end(trace'[i]) ]_vars

C9_Witness ==
    /\ Len(trace) >= 3
    /\ \E i \in 1 .. (Len(trace) - 1) : trace[i + 1].start > slice_end(trace[i])
    /\ some_job_preempted

\* C10: the generated job set holds exactly one job per task and per arrival
\* k * period below the hyper-period (the lcm of all periods), and nothing
\* else; the right-hand side depends on the set of tasks only, not on the
\* order in which they were given.
C10_JobSetExact ==
    /\ jobs = { j \in (DOMAIN tasks) \X (0 .. (get_hyper_period(tasks) - 1)) :
                  j[2] % tasks[j[1]].period = 0 }
    /\ \A t \in DOMAIN tasks :
          /\ get_hyper_period(tasks) % tasks[t].period = 0
          /\ Cardinality({ j \in jobs : j[1] = t }) = get_hyper_period(tasks) \div tasks[t].period
    /\ \A m \in 1 .. (get_hyper_period(tasks) - 1) :
          \E t \in DOMAIN tasks : m % tasks[t].period # 0

C10_Witness ==
    /\ Cardinality(DOMAIN tasks) = 2
    /\ tasks[1].period # tasks[2].period
    /\ Cardinality(jobs) > 4
    /\ pc = "start"

\* C11: for an EDF task set in which every relative deadline equals the
\* period, is_feasible returns True exactly when the total utilization
\* sum(computation / period) is at most 1.
C11_EdfImplicitExact ==
    (alg = "EDF" /\ verdict # "None" /\ \A k \in DOMAIN tasks : tasks[k].deadline = tasks[k].period)
        => (verdict = "True" <=> utilization_sum_scaled(tasks) <= get_hyper_period(tasks))

\* rejected by the demand bound function, not by the per-task utility test
C11_Witness ==
    /\ alg = "EDF"
    /\ verdict = "False"
    /\ Cardinality(DOMAIN tasks) = 2
    /\ \A k \in DOMAIN tasks : tasks[k].deadline = tasks[k].period
    /\ \A k \in DOMAIN tasks : tasks[k].computation < tasks[k].period
    /\ tasks[1].period # tasks[2].period

\* C12: every slice announced by the dispatch loop (RM and EDF) has a
\* duration strictly greater than 0.
C12_SlicesPositive ==
    \A i \in 1 .. Len(trace) : trace[i].duration > 0

\* a slice cut short by the arrival of a higher-priority job
C12_Witness ==
    /\ Len(trace) >= 2
    /\ \E i \in 1 .. Len(trace) :
          /\ trace[i].duration < tasks[trace[i].job[1]].computation
          /\ left[trace[i].job] > 0

\* C13: construction fails with a configuration error when the task list is
\* empty or some period is not positive: a constructed scheduler has at least
\* one task, only positive periods and a non-empty job set.
C13_MalformedInputRejected ==
    pc = "start" =>
        /\ DOMAIN tasks # {}
        /\ \A k \in DOMAIN tasks : tasks[k].period > 0
        /\ jobs # {}

\* C14: when an iteration of the RM loop begins with a pending job that has
\* arrived, is past its deadline and has work left, that iteration raises
\* ValueError without selecting or executing a job (clock, remaining
\* executions, queue and slices unchanged), and nothing changes once the
\* error is raised.
C14_MissCheckedAtIterationStart ==
    [][ /\ (alg = "RM" /\ pc = "loop" /\ pending_missed) =>
              /\ pc' = "error"
              /\ now' = now
              /\ left' = left
              /\ queue' = queue
              /\ trace' = trace
        /\ pc # "error" ]_vars

C14_Witness ==
    /\ alg = "RM"
    /\ pc = "error"
    /\ pending_missed
    /\ Len(trace) >= 2
    /\ Cardinality(DOMAIN tasks) = 2

\* C15: RM priority holds at every instant of every slice: when the RM loop
\* runs job J for [start, start + duration), no other pending job with work
\* left and a strictly smaller period has arrived before the slice ends.
C15_RmPriorityRespected ==
    [][ (alg = "RM" /\ pc = "loop" /\ Len(trace') = Len(trace) + 1) =>
            LET s == trace'[Len(trace')]
            IN  \A i \in 1 .. Len(queue) :
                    (queue[i] # s.job /\ left[queue[i]] > 0
                        /\ job_period(queue[i]) < job_period(s.job))
                    => job_arrival(queue[i]) >= slice_end(s) ]_vars

\* C16: EDF priority holds at every instant of every slice: when the EDF
\* loop runs instance J for [start, start + duration), no other pending
\* instance with work left and a strictly earlier absolute deadline has
\* arrived before the slice ends.
C16_EdfPriorityRespected ==
    [][ (alg = "EDF" /\ pc = "loop" /\ Len(trace') = Len(trace) + 1) =>
            LET s == trace'[Len(trace')]
            IN  \A i \in 1 .. Len(queue) :
                    (queue[i] # s.job /\ left[queue[i]] > 0
                        /\ job_deadline(queue[i]) < job_deadline(s.job))
                    => job_arrival(queue[i]) >= slice_end(s) ]_vars

\* an instance preempted at the arrival of one with an earlier deadline
C16_Witness ==
    /\ alg = "EDF"
    /\ pc = "done"
    /\ \E i \in 1 .. (Len(trace) - 1) :
          /\ trace[i].duration < tasks[trace[i].job[1]].computation
          /\ trace[i + 1].job # trace[i].job
          /\ trace[i + 1].start = slice_end(trace[i])
          /\ job_arrival(trace[i + 1].job) = trace[i + 1].start
          /\ job_deadline(trace[i + 1].job) < job_deadline(trace[i].job)
          /\ \E k \in (i + 2) .. Len(trace) : trace[k].job = trace[i].job

\* C17: in the loop, when the queue is non-empty and no pending job has
\* arrived, the step moves the clock to exactly the least arrival among the
\* pending jobs (a strict increase) and changes nothing else; and a step of
\* the loop that logs no slice and stays in the loop is taken only then: the
\* loop never idles while a pending job has arrived.
C17_IdleStep ==
    [][ pc = "loop" =>
          /\ (queue # <<>> /\ no_arrived) =>
                /\ now' = MinOf({ job_arrival(queue[i]) : i \in 1 .. Len(queue) })
                /\ now' > now
                /\ trace' = trace
                /\ queue' = queue
                /\ left' = left
                /\ pc' = "loop"
          /\ (pc' = "loop" /\ trace' = trace) => (queue # <<>> /\ no_arrived) ]_vars

\* the state right after an idle step that followed some slice
C17_Witness ==
    /\ pc = "loop"
    /\ trace # <<>>
    /\ queue # <<>>
    /\ now > slice_end(trace[Len(trace)])
    /\ \E i \in 1 .. Len(queue) : job_arrival(queue[i]) > now

\* C18: every run of schedule() ends with an empty queue or with the
\* deadline-miss error: each pass through the body of the loop, idle step or
\* slice, strictly decreases a natural number, so there is no infinite
\* sequence of idle steps and slices.
C18_LoopTerminates ==
    (pc = "loop" /\ queue # <<>>) =>
        /\ loop_bound(loop_iteration(alg, Locals)) < loop_bound(Locals)
        /\ loop_bound(loop_iteration(alg, Locals)) >= 0
        /\ \A j \in jobs : left[j] >= 0

\* a run that ended normally after idle steps and preemptions
C18_Witness ==
    /\ pc = "done"
    /\ some_job_preempted
    /\ Len(trace) >= 4
    /\ now > executed(jobs)

\* C19: for a task set admitted by is_feasible, the clock never exceeds the
\* hyper-period while the queue is non-empty, and it is at most the
\* hyper-period when schedule() ends normally.
C19_ClockWithinHyperperiod ==
    (verdict = "True" /\ pc \in {"loop", "done"}) =>
        /\ queue # <<>> => now <= get_hyper_period(tasks)
        /\ pc = "done" => now <= get_hyper_period(tasks)

\* C20: in every state of the dispatch loop each job has
\* 0 <= left_execution <= computation and is done exactly when
\* left_execution = 0; a job is in the queue exactly when its left_execution
\* is above 0; and in every step no left_execution increases and only the
\* job of the slice logged in that step has its left_execution changed.
C20_RemainingExecution ==
    [][ /\ \A j \in jobs :
              /\ 0 <= left'[j] /\ left'[j] <= tasks[j[1]].computation
              /\ is_done(left', j) <=> left'[j] = 0
              /\ left'[j] <= left[j] /\ left[j] <= tasks[j[1]].computation
              /\ left'[j] # left[j] =>
                    /\ Len(trace') = Len(trace) + 1
                    /\ trace'[Len(trace')].job = j
        /\ pc' \in {"loop", "done", "error"} =>
              \A j \in jobs :
                  left'[j] > 0 <=> \E i \in 1 .. Len(queue') : queue'[i] = j ]_vars

\* one job finished, another preempted with part of its work left
C20_Witness ==
    /\ pc = "loop"
    /\ \E j \in jobs : left[j] = 0
    /\ \E j \in jobs :
          /\ 0 < left[j] /\ left[j] < tasks[j[1]].computation
          /\ \E i \in 1 .. Len(queue) : queue[i] = j

\* C21: at every time t at which is_feasible evaluates it,
\* demand_bound_function(t) is the clamped per-task sum, no task contributes
\* a negative demand, and the result is not negative.
C21_DemandBoundClamped ==
    (alg = "EDF" /\ verdict # "None" /\ ~l_star_raises(tasks)) =>
        \A t \in check_points(tasks, jobs) :
            /\ demand_bound_function(tasks, t) = clamped_demand(tasks, t)
            /\ demand_bound_function(tasks, t) >= 0
            /\ \A k \in DOMAIN tasks :
                  (t + tasks[k].period - tasks[k].deadline) \div tasks[k].period >= 0

\* C22: jobs of one task run in release order: when a slice is given to a
\* job (RM and EDF), no job of the same task with an earlier arrival has
\* work left.
C22_ReleaseOrder ==
    [][ (pc = "loop" /\ Len(trace') = Len(trace) + 1) =>
            LET s == trace'[Len(trace')]
            IN  \A j \in jobs :
                    (j[1] = s.job[1] /\ j[2] < s.job[2]) => left[j] = 0 ]_vars

\* a job that still ran at or after the arrival of the next job of its task,
\* which ran after it
C22_Witness ==
    \E i, k \in 1 .. Len(trace) :
        /\ i < k
        /\ trace[i].job[1] = trace[k].job[1]
        /\ trace[i].job[2] < trace[k].job[2]
        /\ slice_end(trace[i]) > trace[k].job[2]


====
